---- MODULE Spec2Model ----
(***************************************************************************)
(* The submit/poll task lifecycle of the captcha worker: handleSubmit,     *)
(* handleResult, solveAndStore and callGemini, over a key-value store with *)
(* a per-key time-to-live.                                                 *)
(*                                                                         *)
(* A JS string is a sequence of tokens (<<"pending">>, <<" ","4","2">>);   *)
(* undefined and null are the reserved values Undefined and Null.  A JS    *)
(* object with string members is a sequence of <<key, value>> pairs in     *)
(* insertion order, key a sequence of one token.                           *)
(***************************************************************************)
EXTENDS Integers, Sequences, FiniteSets, TLC

\* ---------------------------------------------------------------- bounds
\* MaxInFlight: the polls of the page in flight together.
\* MaxTasks: the submissions accepted in a run.  MaxConcurrent: the
\* identifiers there are, and the submissions accepted in a run of ConcSpec.
\* TickStep: the seconds one step of the clock takes.
MaxTasks == 1
MaxConcurrent == 2
MaxInFlight == 2
TickStep == 100

\* ------------------------------------------------------ program constants
\* expirationTtl of the pending put and of the terminal put, in seconds.
PendingTtl == 300
TerminalTtl == 300

TaskIds == 1..MaxConcurrent
NoTaskId == 0
\* An identifier that /submit never generates.
UnknownId == MaxConcurrent + 1

Undefined == <<"#undefined">>
Null == <<"#null">>

Truthy(v) == v # Undefined /\ v # Null /\ Len(v) > 0

\* ------------------------------------------------------------ JS helpers
RECURSIVE TrimLeft(_)
TrimLeft(s) ==
  IF Len(s) > 0 /\ Head(s) = " " THEN TrimLeft(Tail(s)) ELSE s

RECURSIVE TrimRight(_)
TrimRight(s) ==
  IF Len(s) > 0 /\ s[Len(s)] = " " THEN TrimRight(SubSeq(s, 1, Len(s) - 1)) ELSE s

Trim(s) == TrimRight(TrimLeft(s))

\* JSON.stringify of an object: the text {"k":"v","k":"v"} with the members
\* in insertion order, a member whose value is undefined left out.
RECURSIVE JSONMembers(_, _)
JSONMembers(obj, first) ==
  IF obj = <<>> THEN <<>>
  ELSE IF Head(obj)[2] = Undefined THEN JSONMembers(Tail(obj), first)
       ELSE (IF first THEN <<>> ELSE <<",">>)
            \o Head(obj)[1] \o <<":", "\"">> \o Head(obj)[2] \o <<"\"">>
            \o JSONMembers(Tail(obj), FALSE)

JSONStringify(obj) == <<"{">> \o JSONMembers(obj, TRUE) \o <<"}">>

\* ------------------------------------------------------------- the store
NoEntry == [value |-> Null, ttl |-> 0]

KvPut(store, key, value, ttl) ==
  [store EXCEPT ![key] = [value |-> value, ttl |-> ttl]]

KvGet(store, key) ==
  IF key \in DOMAIN store /\ store[key].ttl > 0 THEN store[key].value ELSE Null

KvElapse(store, d) ==
  [k \in DOMAIN store |->
     IF store[k].ttl > d THEN [store[k] EXCEPT !.ttl = @ - d] ELSE NoEntry]

RECURSIVE ApplyPuts(_, _)
ApplyPuts(store, puts) ==
  IF puts = <<>> THEN store
  ELSE ApplyPuts(KvPut(store, Head(puts).key, Head(puts).value, Head(puts).ttl),
                 Tail(puts))

\* ------------------------------------------------------------- requests
AuthToken == <<"AUTH_TOKEN">>
ApiKey == <<"API_KEY">>

SubmitBodies ==
  { [json |-> FALSE, image |-> Undefined, mimeType |-> Undefined],
    [json |-> TRUE, image |-> <<"iVBOR">>, mimeType |-> <<"image/png">>],
    [json |-> TRUE, image |-> <<"iVBOR">>, mimeType |-> <<"image/jpeg">>],
    [json |-> TRUE, image |-> Undefined, mimeType |-> <<"image/png">>],
    [json |-> TRUE, image |-> <<"iVBOR">>, mimeType |-> Undefined] }

SubmitRequests ==
  [ method : {"POST", "GET"},
    authorization : {<<"Bearer ">> \o AuthToken, <<"Bearer ">> \o <<"wrong">>, Null},
    body : SubmitBodies ]

ResultRequests ==
  [ method : {"GET", "POST"},
    apiKey : {ApiKey, <<"wrong">>, Null},
    taskId : TaskIds \cup {NoTaskId, UnknownId} ]

Response(status, body) == [status |-> status, body |-> body]

\* ------------------------------------------------------------------ fetch
\* The settings fetch reads from env, in the order it checks them.
Settings == <<"geminiApiKey", "geminiModel", "authToken", "apiKey", "kv">>

FullEnv ==
  [ geminiApiKey |-> <<"GEMINI_API_KEY">>, geminiModel |-> <<"gemini-model">>,
    authToken |-> AuthToken, apiKey |-> ApiKey, kv |-> <<"RESULTS_KV">> ]

\* The worker environments: complete, one setting absent, one setting the
\* empty string, two settings absent.
Envs ==
  {FullEnv}
  \cup {[FullEnv EXCEPT ![k] = Undefined] : k \in {Settings[i] : i \in 1..Len(Settings)}}
  \cup {[FullEnv EXCEPT !.geminiModel = <<>>],
        [FullEnv EXCEPT !.apiKey = Undefined, !.kv = Undefined]}

\* The first setting of the loop of fetch that is not configured
\* ("#none": all are).
RECURSIVE FirstMissing(_, _)
FirstMissing(e, i) ==
  IF i > Len(Settings) THEN "#none"
  ELSE IF ~Truthy(e[Settings[i]]) THEN Settings[i]
  ELSE FirstMissing(e, i + 1)

\* The check that covers the secrets and the model name, not the KV binding.
MissingSettingSecretsOnly(e) ==
  IF FirstMissing(e, 1) = "kv" THEN "#none" ELSE FirstMissing(e, 1)

MissingSetting(e) == FirstMissing(e, 1)

Paths == {"/", "/submit", "/result", "/other"}

\* fetch up to its dispatch: the response it gives itself, status 0 where it
\* hands the request to handleSubmit or handleResult.
fetch(path, e) ==
  IF MissingSetting(e) # "#none"
    THEN Response(500, <<"Required setting \"", MissingSetting(e),
                         "\" is not configured in Worker environment.">>)
  ELSE IF path = "/" THEN Response(200, <<"<!DOCTYPE html>">>)
  ELSE IF path \in {"/submit", "/result"} THEN Response(0, <<>>)
  ELSE Response(404, <<"Not Found. Use /, /submit or /result.">>)

\* --------------------------------------------------- provider responses
\* What the fetch of callGemini can come back with: a thrown network error,
\* a non-2xx response with a text body or an empty one, or a 2xx response
\* whose body is not JSON, is JSON without the answer path, or carries an
\* answer text.
ProviderResponses ==
  { [threw |-> TRUE,  ok |-> FALSE, decodable |-> FALSE, hasAnswer |-> FALSE, text |-> <<>>],
    [threw |-> FALSE, ok |-> FALSE, decodable |-> FALSE, hasAnswer |-> FALSE, text |-> <<"quota">>],
    [threw |-> FALSE, ok |-> FALSE, decodable |-> FALSE, hasAnswer |-> FALSE, text |-> <<>>],
    [threw |-> FALSE, ok |-> TRUE,  decodable |-> FALSE, hasAnswer |-> FALSE, text |-> <<>>],
    [threw |-> FALSE, ok |-> TRUE,  decodable |-> TRUE,  hasAnswer |-> FALSE, text |-> <<>>],
    [threw |-> FALSE, ok |-> TRUE,  decodable |-> TRUE,  hasAnswer |-> TRUE,  text |-> <<" ">>],
    [threw |-> FALSE, ok |-> TRUE,  decodable |-> TRUE,  hasAnswer |-> TRUE,  text |-> <<" ", "4", "2">>] }

NoResponse ==
  [threw |-> FALSE, ok |-> FALSE, decodable |-> FALSE, hasAnswer |-> FALSE, text |-> <<"#none">>]


\* ------------------------------------------------------------ callGemini
\* callGemini that reads the answer from a path the response does not have.
callGeminiWrongPath(res) ==
  IF res.threw
    THEN [threw |-> TRUE, solution |-> Undefined, error |-> Undefined]
  ELSE IF ~res.ok
    THEN [threw |-> FALSE, solution |-> Undefined,
          error |-> <<"Gemini API error: ">> \o res.text]
  ELSE IF ~res.decodable
    THEN [threw |-> TRUE, solution |-> Undefined, error |-> Undefined]
  ELSE [threw |-> FALSE, solution |-> Undefined,
        error |-> <<"Failed to parse Gemini response">>]

\* The part of callGemini after its fetch has settled with res.  The fetch
\* and res.json() are awaited outside the try block, so a network error or
\* an undecodable 2xx body leaves callGemini by an exception.
callGemini(res) ==
  IF res.threw
    THEN [threw |-> TRUE, solution |-> Undefined, error |-> Undefined]
  ELSE IF ~res.ok
    THEN [threw |-> FALSE, solution |-> Undefined,
          error |-> <<"Gemini API error: ">> \o res.text]
  ELSE IF ~res.decodable
    THEN [threw |-> TRUE, solution |-> Undefined, error |-> Undefined]
  ELSE IF ~res.hasAnswer
    THEN [threw |-> FALSE, solution |-> Undefined,
          error |-> <<"Failed to parse Gemini response">>]
  ELSE [threw |-> FALSE, solution |-> Trim(res.text), error |-> Undefined]

\* ---------------------------------------------------------- solveAndStore
NoBody == [image |-> Undefined, mimeType |-> Undefined]

NoPayload == [mime_type |-> Undefined, data |-> Undefined]

\* callGemini of captcha-gemini.js.
callGeminiV1(res) ==
  IF res.threw THEN [threw |-> TRUE, solution |-> Undefined, error |-> Undefined]
  ELSE IF ~res.ok
    THEN [threw |-> FALSE, solution |-> Undefined,
          error |-> <<"Gemini API error: ">> \o res.text]
  ELSE IF ~res.decodable THEN [threw |-> TRUE, solution |-> Undefined, error |-> Undefined]
  ELSE IF ~res.hasAnswer
    THEN [threw |-> FALSE, solution |-> Undefined,
          error |-> <<"Failed to parse Gemini response">>]
  ELSE [threw |-> FALSE, solution |-> Trim(res.text), error |-> Undefined]

\* expirationTtl of both puts of captcha-gemini.js.
TtlV1 == 300

\* solveAndStore of captcha-gemini.js from the point its awaited callGemini
\* settles.
solveAndStoreV1(taskId, res) ==
  LET geminiResult == callGeminiV1(res) IN
    IF geminiResult.threw
      THEN [threw |-> TRUE, puts |-> <<>>]
      ELSE [threw |-> FALSE,
            puts |-> << [key |-> taskId,
                         value |->
                           IF Truthy(geminiResult.error)
                             THEN JSONStringify(<< <<<<"status">>, <<"error">>>>,
                                                   <<<<"message">>, geminiResult.error>> >>)
                             ELSE JSONStringify(<< <<<<"status">>, <<"completed">>>>,
                                                   <<<<"solution">>, geminiResult.solution>> >>),
                         ttl |-> TtlV1] >>]

\* The payload that names a media type this worker never sends.
GeminiPayloadV1Gif(imageBase64) == [mime_type |-> <<"image/gif">>, data |-> imageBase64]

\* The inline_data part solveAndStore of captcha-gemini.js sends: that worker
\* takes no media type.
GeminiPayloadV1(imageBase64) == [mime_type |-> <<"image/png">>, data |-> imageBase64]

\* The inline_data part of the request body solveAndStore sends to the
\* provider.
GeminiPayload(imageBase64, mimeType) == [mime_type |-> mimeType, data |-> imageBase64]

\* The final object that carries both members whatever the outcome.
FinalResultMerged(result) ==
  IF Truthy(result.error)
    THEN << <<<<"status">>, <<"error">>>>, <<<<"solution">>, <<>>>>,
            <<<<"message">>, result.error>> >>
    ELSE << <<<<"status">>, <<"completed">>>>, <<<<"solution">>, result.solution>>,
            <<<<"message">>, <<>>>> >>

\* The object solveAndStore builds from callGemini's result.
FinalResult(result) ==
  IF Truthy(result.error)
    THEN << <<<<"status">>, <<"error">>>>, <<<<"message">>, result.error>> >>
    ELSE << <<<<"status">>, <<"completed">>>>, <<<<"solution">>, result.solution>> >>

\* solveAndStore whose terminal put carries a shorter expiry.
solveAndStoreShortTtl(taskId, res) ==
  LET result == callGemini(res) IN
    IF result.threw
      THEN [threw |-> TRUE, puts |-> <<>>]
      ELSE [threw |-> FALSE,
            puts |-> << [key |-> taskId,
                         value |-> JSONStringify(FinalResult(result)),
                         ttl |-> 60] >>]

\* solveAndStore that stores the outcome, then stores it again.
solveAndStoreTwoPuts(taskId, res) ==
  LET result == callGemini(res) IN
    IF result.threw
      THEN [threw |-> TRUE, puts |-> <<>>]
      ELSE [threw |-> FALSE,
            puts |-> << [key |-> taskId,
                         value |-> JSONStringify(FinalResult(result)),
                         ttl |-> TerminalTtl],
                        [key |-> taskId,
                         value |-> JSONStringify(FinalResult(result)),
                         ttl |-> TerminalTtl] >>]

\* solveAndStore that stores every outcome under one key of the worker.
solveAndStoreSharedKey(taskId, res) ==
  LET result == callGemini(res) IN
    IF result.threw
      THEN [threw |-> TRUE, puts |-> <<>>]
      ELSE [threw |-> FALSE,
            puts |-> << [key |-> 1,
                         value |-> JSONStringify(FinalResult(result)),
                         ttl |-> TerminalTtl] >>]

\* solveAndStore from the point its awaited callGemini settles: the puts it
\* makes, and whether its promise is rejected.
solveAndStore(taskId, res) ==
  LET result == callGemini(res) IN
    IF result.threw
      THEN [threw |-> TRUE, puts |-> <<>>]
      ELSE [threw |-> FALSE,
            puts |-> << [key |-> taskId,
                         value |-> JSONStringify(FinalResult(result)),
                         ttl |-> TerminalTtl] >>]

\* ----------------------------------------------------------- handleSubmit
Uuid(taskId) == <<"uuid-", ToString(taskId)>>

PendingValue == JSONStringify(<< <<<<"status">>, <<"pending">>>> >>)

\* handleSubmit that does not wait for (here: never makes) the pending put.
handleSubmitNoPut(request, taskId) ==
  IF request.method # "POST"
    THEN [response |-> Response(405, <<"Expected POST">>), puts |-> <<>>]
  ELSE IF request.authorization # <<"Bearer ">> \o AuthToken
    THEN [response |-> Response(401, <<"Unauthorized: Invalid AUTH_TOKEN">>), puts |-> <<>>]
  ELSE IF ~request.body.json
    THEN [response |-> Response(400, <<"Invalid JSON body">>), puts |-> <<>>]
  ELSE IF ~Truthy(request.body.image) \/ ~Truthy(request.body.mimeType)
    THEN [response |-> Response(400, <<"Missing image or mimeType">>), puts |-> <<>>]
  ELSE [response |-> Response(0, <<>>), puts |-> <<>>]

\* handleSubmit that stores the initial state under another status word.
handleSubmitQueued(request, taskId) ==
  IF request.method # "POST"
    THEN [response |-> Response(405, <<"Expected POST">>), puts |-> <<>>]
  ELSE IF request.authorization # <<"Bearer ">> \o AuthToken
    THEN [response |-> Response(401, <<"Unauthorized: Invalid AUTH_TOKEN">>), puts |-> <<>>]
  ELSE IF ~request.body.json
    THEN [response |-> Response(400, <<"Invalid JSON body">>), puts |-> <<>>]
  ELSE IF ~Truthy(request.body.image) \/ ~Truthy(request.body.mimeType)
    THEN [response |-> Response(400, <<"Missing image or mimeType">>), puts |-> <<>>]
  ELSE [response |-> Response(0, <<>>),
        puts |-> << [key |-> taskId,
                     value |-> JSONStringify(<< <<<<"status">>, <<"queued">>>> >>),
                     ttl |-> PendingTtl] >>]

\* handleSubmit of captcha-gemini.js, the worker without the page: it asks
\* for the image only.
handleSubmitV1(request, taskId) ==
  IF request.method # "POST"
    THEN [response |-> Response(405, <<"Expected POST">>), puts |-> <<>>]
  ELSE IF request.authorization # <<"Bearer ">> \o AuthToken
    THEN [response |-> Response(401, <<"Unauthorized: Invalid AUTH_TOKEN">>), puts |-> <<>>]
  ELSE IF ~request.body.json
    THEN [response |-> Response(400, <<"Invalid JSON body">>), puts |-> <<>>]
  ELSE IF ~Truthy(request.body.image)
    THEN [response |-> Response(400, <<"Missing \"image\" field">>), puts |-> <<>>]
  ELSE [response |-> Response(0, <<>>),
        puts |-> << [key |-> taskId, value |-> PendingValue, ttl |-> PendingTtl] >>]

\* handleSubmit that does not look at the Authorization header.
handleSubmitNoAuth(request, taskId) ==
  IF request.method # "POST"
    THEN [response |-> Response(405, <<"Expected POST">>), puts |-> <<>>]
  ELSE IF ~request.body.json
    THEN [response |-> Response(400, <<"Invalid JSON body">>), puts |-> <<>>]
  ELSE IF ~Truthy(request.body.image) \/ ~Truthy(request.body.mimeType)
    THEN [response |-> Response(400, <<"Missing image or mimeType">>), puts |-> <<>>]
  ELSE [response |-> Response(0, <<>>),
        puts |-> << [key |-> taskId, value |-> PendingValue, ttl |-> PendingTtl] >>]

\* handleSubmit that checks the credential before the method.
handleSubmitAuthFirst(request, taskId) ==
  IF request.authorization # <<"Bearer ">> \o AuthToken
    THEN [response |-> Response(401, <<"Unauthorized: Invalid AUTH_TOKEN">>), puts |-> <<>>]
  ELSE IF request.method # "POST"
    THEN [response |-> Response(405, <<"Expected POST">>), puts |-> <<>>]
  ELSE IF ~request.body.json
    THEN [response |-> Response(400, <<"Invalid JSON body">>), puts |-> <<>>]
  ELSE IF ~Truthy(request.body.image) \/ ~Truthy(request.body.mimeType)
    THEN [response |-> Response(400, <<"Missing image or mimeType">>), puts |-> <<>>]
  ELSE [response |-> Response(0, <<>>),
        puts |-> << [key |-> taskId, value |-> PendingValue, ttl |-> PendingTtl] >>]

\* handleSubmit up to its awaited kv.put: the early response, if any
\* (status 0: none), and the puts.
handleSubmit(request, taskId) ==
  IF request.method # "POST"
    THEN [response |-> Response(405, <<"Expected POST">>), puts |-> <<>>]
  ELSE IF request.authorization # <<"Bearer ">> \o AuthToken
    THEN [response |-> Response(401, <<"Unauthorized: Invalid AUTH_TOKEN">>), puts |-> <<>>]
  ELSE IF ~request.body.json
    THEN [response |-> Response(400, <<"Invalid JSON body">>), puts |-> <<>>]
  ELSE IF ~Truthy(request.body.image) \/ ~Truthy(request.body.mimeType)
    THEN [response |-> Response(400, <<"Missing image or mimeType">>), puts |-> <<>>]
  ELSE [response |-> Response(0, <<>>),
        puts |-> << [key |-> taskId, value |-> PendingValue, ttl |-> PendingTtl] >>]

\* handleSubmit that catches the rejection of its put and goes on.
AfterPutSwallowed(putOk) == "awaitPut"

\* Where handleSubmit is once its awaited put has settled: a rejected put
\* leaves the handler by an exception.
AfterPut(putOk) == IF putOk THEN "awaitPut" ELSE "putFailed"

\* handleSubmit after the awaited put: the response that carries the id.
handleSubmitResponse(taskId) ==
  Response(200, JSONStringify(<< <<<<"taskId">>, Uuid(taskId)>> >>))

\* ----------------------------------------------------------- handleResult
\* handleResult of captcha-gemini.js: not found is the null of kv.get.
handleResultV1(request, store) ==
  IF request.method # "GET"
    THEN [response |-> Response(405, <<"Expected GET">>), kv |-> store, reads |-> <<>>]
  ELSE IF request.apiKey # ApiKey
    THEN [response |-> Response(401, <<"Unauthorized: Invalid API_KEY">>), kv |-> store, reads |-> <<>>]
  ELSE IF request.taskId = NoTaskId
    THEN [response |-> Response(400, <<"Missing \"taskId\" query parameter">>), kv |-> store, reads |-> <<>>]
  ELSE LET result == KvGet(store, request.taskId) IN
    IF result = Null
      THEN [response |-> Response(404, <<"Task not found or expired">>), kv |-> store, reads |-> <<request.taskId>>]
      ELSE [response |-> Response(200, result), kv |-> store, reads |-> <<request.taskId>>]

\* handleResult that deletes the entry it has delivered.
handleResultConsume(request, store) ==
  IF request.method # "GET"
    THEN [response |-> Response(405, <<"Expected GET">>), kv |-> store, reads |-> <<>>]
  ELSE IF request.apiKey # ApiKey
    THEN [response |-> Response(401, <<"Unauthorized: Invalid API_KEY">>), kv |-> store, reads |-> <<>>]
  ELSE IF request.taskId = NoTaskId
    THEN [response |-> Response(400, <<"Missing \"taskId\" parameter">>), kv |-> store, reads |-> <<>>]
  ELSE LET result == KvGet(store, request.taskId) IN
    IF ~Truthy(result)
      THEN [response |-> Response(404, <<"Task not found or expired">>), kv |-> store, reads |-> <<request.taskId>>]
      ELSE [response |-> Response(200, result),
            kv |-> [store EXCEPT ![request.taskId] = NoEntry],
            reads |-> <<request.taskId>>]

\* handleResult that answers with the first member of the stored text only.
handleResultStatusOnly(request, store) ==
  IF request.method # "GET"
    THEN [response |-> Response(405, <<"Expected GET">>), kv |-> store, reads |-> <<>>]
  ELSE IF request.apiKey # ApiKey
    THEN [response |-> Response(401, <<"Unauthorized: Invalid API_KEY">>), kv |-> store, reads |-> <<>>]
  ELSE IF request.taskId = NoTaskId
    THEN [response |-> Response(400, <<"Missing \"taskId\" parameter">>), kv |-> store, reads |-> <<>>]
  ELSE LET result == KvGet(store, request.taskId) IN
    IF ~Truthy(result)
      THEN [response |-> Response(404, <<"Task not found or expired">>), kv |-> store, reads |-> <<request.taskId>>]
      ELSE [response |-> Response(200, SubSeq(result, 1, 6) \o <<"}">>), kv |-> store, reads |-> <<request.taskId>>]

\* handleResult that takes a key the store does not hold for a task still
\* being solved.
handleResultPendingOnMiss(request, store) ==
  IF request.method # "GET"
    THEN [response |-> Response(405, <<"Expected GET">>), kv |-> store, reads |-> <<>>]
  ELSE IF request.apiKey # ApiKey
    THEN [response |-> Response(401, <<"Unauthorized: Invalid API_KEY">>), kv |-> store, reads |-> <<>>]
  ELSE IF request.taskId = NoTaskId
    THEN [response |-> Response(400, <<"Missing \"taskId\" parameter">>), kv |-> store, reads |-> <<>>]
  ELSE LET result == KvGet(store, request.taskId) IN
    IF ~Truthy(result)
      THEN [response |-> Response(200, PendingValue), kv |-> store, reads |-> <<request.taskId>>]
      ELSE [response |-> Response(200, result), kv |-> store, reads |-> <<request.taskId>>]

\* handleResult that looks the task up before it checks the credential.
handleResultLookupFirst(request, store) ==
  IF request.method # "GET"
    THEN [response |-> Response(405, <<"Expected GET">>), kv |-> store, reads |-> <<>>]
  ELSE IF request.taskId = NoTaskId
    THEN [response |-> Response(400, <<"Missing \"taskId\" parameter">>), kv |-> store, reads |-> <<>>]
  ELSE LET result == KvGet(store, request.taskId) IN
    IF ~Truthy(result)
      THEN [response |-> Response(404, <<"Task not found or expired">>), kv |-> store, reads |-> <<request.taskId>>]
    ELSE IF request.apiKey # ApiKey
      THEN [response |-> Response(401, <<"Unauthorized: Invalid API_KEY">>), kv |-> store, reads |-> <<request.taskId>>]
      ELSE [response |-> Response(200, result), kv |-> store, reads |-> <<request.taskId>>]

\* The response of handleResult the store as the handler leaves it and
\* the keys it has read.
handleResult(request, store) ==
  IF request.method # "GET"
    THEN [response |-> Response(405, <<"Expected GET">>), kv |-> store, reads |-> <<>>]
  ELSE IF request.apiKey # ApiKey
    THEN [response |-> Response(401, <<"Unauthorized: Invalid API_KEY">>), kv |-> store, reads |-> <<>>]
  ELSE IF request.taskId = NoTaskId
    THEN [response |-> Response(400, <<"Missing \"taskId\" parameter">>), kv |-> store, reads |-> <<>>]
  ELSE LET result == KvGet(store, request.taskId) IN
    IF ~Truthy(result)
      THEN [response |-> Response(404, <<"Task not found or expired">>), kv |-> store, reads |-> <<request.taskId>>]
      ELSE [response |-> Response(200, result), kv |-> store, reads |-> <<request.taskId>>]

\* ------------------------------------------------------------------ state
VARIABLES
  env,           \* the settings of the worker, fixed for a run
  quota,         \* the submissions the run accepts, fixed for a run
  page,          \* the page's pollResult: display, timer, counter, polls in flight
  kv,            \* RESULTS_KV: key -> [value, ttl], ttl the seconds left
  task,          \* per id: position of its submit handler / background step
  writes,        \* history: per key, the values put, in order
  expired,       \* history: per key, an entry of it has run out of TTL
  seenTerminal,  \* history: per key, a poll has returned a terminal state
  issued,        \* history: the ids carried by the /submit responses sent
  failedPuts,    \* history: the ids whose pending put the store rejected
  calls,         \* history: per id, the provider calls started for it
  age            \* history: per key, seconds since the terminal put

vars == <<env, quota, page, kv, task, writes, expired, seenTerminal, issued, failedPuts, calls, age>>

Min(a, b) == IF a < b THEN a ELSE b

TerminalStatuses == {"completed", "error"}

\* The status word and the second member of a stored JSON text
\* {"status":"<word>"} or {"status":"<word>","<key>":"<text>"}.
StatusOf(value) ==
  IF Len(value) >= 7 /\ value[2] = "status" THEN value[5] ELSE "#none"

SecondKey(value) == IF Len(value) >= 12 THEN value[8] ELSE "#none"

SecondText(value) == IF Len(value) >= 12 THEN SubSeq(value, 11, Len(value) - 2) ELSE <<>>

IsTerminal(value) == StatusOf(value) \in TerminalStatuses

\* The polls of the page that are in flight, by where they are: "sent" for
\* a fetch the worker has not answered, or the answer on its way back.
PollKinds == {"sent", "pending", "completed", "error", "notOk", "threw"}

\* No page is open.
PageOff ==
  [ output |-> [kind |-> "none", count |-> 0], timer |-> FALSE, pollCount |-> 0,
    inflight |-> [k \in PollKinds |-> 0], server |-> "none" ]

Init ==
  /\ env \in Envs
  /\ quota = MaxTasks
  /\ page = PageOff
  /\ kv = [k \in TaskIds |-> NoEntry]
  /\ task = [t \in TaskIds |->
               [pc |-> "none", res |-> NoResponse, body |-> NoBody, payload |-> NoPayload]]
  /\ writes = [t \in TaskIds |-> <<>>]
  /\ expired = [t \in TaskIds |-> FALSE]
  /\ seenTerminal = [t \in TaskIds |-> FALSE]
  /\ issued = {}
  /\ failedPuts = {}
  /\ calls = [t \in TaskIds |-> 0]
  /\ age = [t \in TaskIds |-> 0]

RECURSIVE LogPuts(_, _)
LogPuts(log, puts) ==
  IF puts = <<>> THEN log
  ELSE LogPuts([log EXCEPT ![Head(puts).key] = Append(@, Head(puts).value)], Tail(puts))

FreshIds ==
  IF Cardinality({t \in TaskIds : task[t].pc # "none"}) < quota
    THEN {t \in TaskIds : task[t].pc = "none"}
    ELSE {}

\* crypto.randomUUID(): an identifier not issued before.
NextId ==
  IF FreshIds = {} THEN NoTaskId ELSE CHOOSE t \in FreshIds : \A u \in FreshIds : t <= u

\* POST /submit up to the awaited kv.put (or to its early return); putOk:
\* whether the store accepts the put.
Submit(request, putOk) ==
  /\ LET r == handleSubmit(request, NextId) IN
       IF fetch("/submit", env).status # 0 \/ r.response.status # 0
         THEN UNCHANGED vars
         ELSE /\ FreshIds # {}
              /\ kv' = IF putOk THEN ApplyPuts(kv, r.puts) ELSE kv
              /\ writes' = IF putOk THEN LogPuts(writes, r.puts) ELSE writes
              /\ task' = [task EXCEPT ![NextId].pc = AfterPut(putOk),
                                      ![NextId].body =
                                         IF putOk
                                           THEN [image |-> request.body.image,
                                                 mimeType |-> request.body.mimeType]
                                           ELSE NoBody]
              /\ failedPuts' = IF putOk THEN failedPuts ELSE failedPuts \cup {NextId}
              /\ UNCHANGED <<env, page, quota, calls, expired, seenTerminal, issued, age>>

\* handleSubmit that awaits solveAndStore instead of handing it to
\* ctx.waitUntil: the fetch starts, the response waits for the step to end.
SubmitResumeAwaiting(t) ==
  /\ task[t].pc = "awaitPut"
  /\ task' = [task EXCEPT ![t].pc = "fetching",
                          ![t].payload = GeminiPayload(task[t].body.image, task[t].body.mimeType)]
  /\ calls' = [calls EXCEPT ![t] = @ + 1]
  /\ UNCHANGED <<env, page, quota, issued, failedPuts, kv, writes, expired, seenTerminal, age>>

\* handleSubmit resumes after the put: ctx.waitUntil(solveAndStore(...)),
\* which runs up to the fetch of callGemini, then the response.
SubmitResume(t) ==
  /\ task[t].pc = "awaitPut"
  /\ task' = [task EXCEPT ![t].pc = "fetching",
                          ![t].payload = GeminiPayload(task[t].body.image, task[t].body.mimeType)]
  /\ issued' = IF handleSubmitResponse(t).status = 200 THEN issued \cup {t} ELSE issued
  /\ calls' = [calls EXCEPT ![t] = @ + 1]
  /\ UNCHANGED <<env, page, quota, failedPuts, kv, writes, expired, seenTerminal, age>>

\* The provider call of task t settles.
ProviderRespond(t, res) ==
  /\ task[t].pc = "fetching"
  /\ task' = [task EXCEPT ![t] = [pc |-> "settled", res |-> res,
                                  body |-> NoBody, payload |-> NoPayload]]
  /\ UNCHANGED <<env, page, quota, calls, failedPuts, kv, writes, expired, seenTerminal, issued, age>>

\* The background step that calls the provider again when the call failed.
SolveAndStoreRetrying(t) ==
  /\ task[t].pc = "settled"
  /\ LET r == solveAndStore(t, task[t].res) IN
       IF r.threw \/ Truthy(callGemini(task[t].res).error)
         THEN /\ task' = [task EXCEPT ![t].pc = "fetching", ![t].res = NoResponse]
              /\ calls' = [calls EXCEPT ![t] = @ + 1]
              /\ UNCHANGED <<kv, writes>>
         ELSE /\ kv' = ApplyPuts(kv, r.puts)
              /\ writes' = LogPuts(writes, r.puts)
              /\ task' = [task EXCEPT ![t].pc = "done"]
              /\ UNCHANGED calls
  /\ UNCHANGED <<env, page, quota, failedPuts, expired, seenTerminal, issued, age>>

\* The background step of task t runs from the settled fetch to its end.
SolveAndStore(t) ==
  /\ task[t].pc = "settled"
  /\ LET r == solveAndStore(t, task[t].res) IN
       /\ kv' = ApplyPuts(kv, r.puts)
       /\ writes' = LogPuts(writes, r.puts)
       /\ task' = [task EXCEPT ![t].pc = IF r.threw THEN "rejected" ELSE "done"]
  /\ UNCHANGED <<env, page, quota, calls, failedPuts, expired, seenTerminal, issued, age>>

\* GET /result.
Result(request) ==
  /\ LET r == handleResult(request, kv) IN
       IF fetch("/result", env).status # 0
         THEN UNCHANGED <<kv, seenTerminal>>
         ELSE /\ kv' = r.kv
              /\ seenTerminal' =
                   [t \in TaskIds |->
                      seenTerminal[t] \/ (/\ t = request.taskId
                                          /\ r.response.status = 200
                                          /\ IsTerminal(r.response.body))]
  /\ UNCHANGED <<env, page, quota, calls, failedPuts, task, writes, expired, issued, age>>

\* A request for the page or for a path fetch does not know.
Other(path) ==
  /\ path \notin {"/submit", "/result"}
  /\ fetch(path, env).status # 0
  /\ UNCHANGED vars

\* TickStep seconds pass.  A store call of a handler completes within a
\* tick: no time passes while handleSubmit awaits its put.
Tick ==
  /\ \A t \in TaskIds : task[t].pc # "awaitPut"
  /\ kv' = KvElapse(kv, TickStep)
  /\ expired' = [t \in TaskIds |-> expired[t] \/ (kv[t].ttl > 0 /\ kv'[t].ttl = 0)]
  /\ age' = [t \in TaskIds |->
               IF task[t].pc = "done" THEN Min(age[t] + TickStep, TerminalTtl) ELSE age[t]]
  /\ UNCHANGED <<env, page, quota, calls, failedPuts, task, writes, seenTerminal, issued>>

Next ==
  \/ \E request \in SubmitRequests, putOk \in BOOLEAN : Submit(request, putOk)
  \/ \E t \in TaskIds : SubmitResume(t)
  \/ \E t \in TaskIds, res \in ProviderResponses : ProviderRespond(t, res)
  \/ \E t \in TaskIds : SolveAndStore(t)
  \/ \E request \in ResultRequests : Result(request)
  \/ \E path \in Paths : Other(path)
  \/ Tick

Spec == Init /\ [][Next]_vars

\* The runtime keeps a started handler running, and ctx.waitUntil keeps the
\* background step running once its provider call has settled.
FairSpec ==
  /\ Spec
  /\ \A t \in TaskIds : WF_vars(SubmitResume(t))
  /\ \A t \in TaskIds : WF_vars(SolveAndStore(t))

\* ------------------------------------------------- concurrent submissions
\* The requests and provider responses of ConcSpec: accepted submissions,
\* authenticated polls, one failure and one answer of the provider.
ConcSubmitRequests ==
  {r \in SubmitRequests : handleSubmit(r, NoTaskId).response.status = 0
                          /\ r.body.mimeType = <<"image/png">>}

ConcResponses ==
  {res \in ProviderResponses :
     ~res.threw /\ (res.text = <<"quota">> \/ res.text = <<" ", "4", "2">>)}

ConcInit ==
  /\ env = FullEnv
  /\ quota = MaxConcurrent
  /\ page = PageOff
  /\ kv = [k \in TaskIds |-> NoEntry]
  /\ task = [t \in TaskIds |->
               [pc |-> "none", res |-> NoResponse, body |-> NoBody, payload |-> NoPayload]]
  /\ writes = [t \in TaskIds |-> <<>>]
  /\ expired = [t \in TaskIds |-> FALSE]
  /\ seenTerminal = [t \in TaskIds |-> FALSE]
  /\ issued = {}
  /\ failedPuts = {}
  /\ calls = [t \in TaskIds |-> 0]
  /\ age = [t \in TaskIds |-> 0]

ConcNext ==
  \/ \E request \in ConcSubmitRequests : Submit(request, TRUE)
  \/ \E t \in TaskIds : SubmitResume(t)
  \/ \E t \in TaskIds, res \in ConcResponses : ProviderRespond(t, res)
  \/ \E t \in TaskIds : SolveAndStore(t)
  \/ \E t \in TaskIds : Result([method |-> "GET", apiKey |-> ApiKey, taskId |-> t])
  \/ Tick

\* The worker under MaxConcurrent accepted submissions whose handlers and
\* background steps interleave.
ConcSpec == ConcInit /\ [][ConcNext]_vars

\* ------------------------------------------------------- page: pollResult
maxPolls == 30

workerVars ==
  <<env, quota, kv, task, writes, expired, seenTerminal, issued, failedPuts, calls, age>>

Display(kind, count) == [kind |-> kind, count |-> count]

InFlight == page.inflight["sent"] + page.inflight["pending"] + page.inflight["completed"]
            + page.inflight["error"] + page.inflight["notOk"] + page.inflight["threw"]

\* The page has had its taskId from /submit and has just called pollResult:
\* the interval is set, no poll has been sent.
PageInit ==
  /\ env = FullEnv
  /\ quota = 0
  /\ kv = [k \in TaskIds |-> NoEntry]
  /\ task = [t \in TaskIds |->
               [pc |-> "none", res |-> NoResponse, body |-> NoBody, payload |-> NoPayload]]
  /\ writes = [t \in TaskIds |-> <<>>]
  /\ expired = [t \in TaskIds |-> FALSE]
  /\ seenTerminal = [t \in TaskIds |-> FALSE]
  /\ issued = {}
  /\ failedPuts = {}
  /\ calls = [t \in TaskIds |-> 0]
  /\ age = [t \in TaskIds |-> 0]
  /\ page = [ output |-> Display("polling", 0), timer |-> TRUE, pollCount |-> 0,
              inflight |-> [k \in PollKinds |-> 0], server |-> "pending" ]

\* The interval fires: the callback counts, gives up after maxPolls, and
\* otherwise sends a poll and waits for it; the timer does not wait.
TimerFire ==
  /\ page.timer
  /\ IF page.pollCount + 1 > maxPolls
       THEN page' = [page EXCEPT !.pollCount = @ + 1,
                                 !.output = Display("timeout", 0),
                                 !.timer = FALSE]
       ELSE /\ InFlight < MaxInFlight
            /\ page' = [page EXCEPT !.pollCount = @ + 1,
                                    !.inflight["sent"] = @ + 1]
  /\ UNCHANGED workerVars

\* The background step of the task ends with a terminal state stored.
ServerSettle(status) ==
  /\ page.server = "pending"
  /\ status \in TerminalStatuses
  /\ page' = [page EXCEPT !.server = status]
  /\ UNCHANGED workerVars

\* A poll reaches the worker and is answered with the state stored now, or
\* with a status that is not 2xx, or the fetch fails.
PollAnswered(kind) ==
  /\ page.inflight["sent"] > 0
  /\ kind \in {page.server, "notOk", "threw"}
  /\ page' = [page EXCEPT !.inflight["sent"] = @ - 1, !.inflight[kind] = @ + 1]
  /\ UNCHANGED workerVars

\* The callback of a poll resumes with its answer.
PollResume(kind) ==
  /\ kind \in PollKinds \ {"sent"}
  /\ page.inflight[kind] > 0
  /\ page' =
       [page EXCEPT
          !.inflight[kind] = @ - 1,
          !.output = CASE kind = "notOk" -> Display("fetchFailed", 0)
                       [] kind = "completed" -> Display("solution", 0)
                       [] kind = "error" -> Display("failed", 0)
                       [] kind = "pending" -> Display("progress", page.pollCount)
                       [] kind = "threw" -> Display("exception", 0),
          !.timer = IF kind = "pending" THEN @ ELSE FALSE]
  /\ UNCHANGED workerVars

PageNext ==
  \/ TimerFire
  \/ \E status \in TerminalStatuses : ServerSettle(status)
  \/ \E kind \in PollKinds : PollAnswered(kind)
  \/ \E kind \in PollKinds : PollResume(kind)

PageSpec == PageInit /\ [][PageNext]_vars

TypeOK ==
  /\ \A t \in TaskIds : task[t].pc \in {"none", "putFailed", "awaitPut", "fetching", "settled", "done", "rejected"}
  /\ \A t \in TaskIds : kv[t].ttl \in 0..PendingTtl


\* ------------------------------------------------------------ properties
ValidPoll(t) == [method |-> "GET", apiKey |-> ApiKey, taskId |-> t]

\* The response a correctly authenticated GET /result for t gets now.
Poll(t) == handleResult(ValidPoll(t), kv).response

LastWrite(t) == writes[t][Len(writes[t])]

\* C1: the pending put of an identifier has completed before the /submit
\* response carrying it is returned, every terminal put of a key comes after
\* its pending put, and a reader that has seen a terminal state of an
\* identifier is never answered pending for it afterwards.
C1_PendingBeforeResponseBeforeTerminal ==
  \A t \in TaskIds :
    /\ t \in issued => Len(writes[t]) >= 1 /\ writes[t][1] = PendingValue
    /\ \A i \in 1..Len(writes[t]) :
         IsTerminal(writes[t][i]) => i > 1 /\ writes[t][1] = PendingValue
    /\ seenTerminal[t] => Poll(t).body # PendingValue

C1_Witness ==
  \E t \in TaskIds :
    /\ t \in issued
    /\ Len(writes[t]) = 2
    /\ IsTerminal(writes[t][2])
    /\ seenTerminal[t]

\* C2: in the state in which the /submit response carrying an identifier is
\* returned, a correctly authenticated GET /result for that identifier
\* answers 200 with {status: pending}.
C2_ImmediatePollIsPending ==
  [][\A t \in TaskIds :
       SubmitResume(t) =>
         handleResult(ValidPoll(t), kv').response = Response(200, PendingValue)]_vars

C2_Witness ==
  \E t \in TaskIds :
    /\ t \in issued
    /\ task[t].pc = "fetching"
    /\ kv[t].ttl = PendingTtl
    /\ Poll(t) = Response(200, PendingValue)


Finished(t) == task[t].pc \in {"done", "rejected"}

\* C3: the value stored under a key only ever changes from pending to
\* completed or from pending to error, and a terminal value appears under a
\* key only where pending was stored immediately before.
C3_OnlyPendingToTerminal ==
  [][\A t \in TaskIds :
       LET before == KvGet(kv, t)
           after == KvGet(kv', t)
       IN /\ (before # Null /\ after # Null /\ after # before) =>
               (before = PendingValue /\ IsTerminal(after))
          /\ (IsTerminal(after) /\ after # before) => before = PendingValue]_vars

\* The provider answered 2xx with a well-formed body whose answer text is
\* not blank.
Succeeded(res) ==
  /\ ~res.threw /\ res.ok /\ res.decodable /\ res.hasAnswer
  /\ \E i \in 1..Len(res.text) : res.text[i] # " "

\* C4: when the provider call of a task has succeeded, the entry of the task
\* eventually holds status completed with a non-empty solution.
C4_SuccessEventuallyCompleted ==
  \A t \in TaskIds :
    (task[t].pc = "settled" /\ Succeeded(task[t].res))
      ~> (/\ StatusOf(KvGet(kv, t)) = "completed"
          /\ SecondKey(KvGet(kv, t)) = "solution"
          /\ SecondText(KvGet(kv, t)) # <<>>)

C4_Witness ==
  \E t \in TaskIds :
    /\ task[t].pc = "done"
    /\ Succeeded(task[t].res)
    /\ StatusOf(KvGet(kv, t)) = "completed"
    /\ SecondText(KvGet(kv, t)) = <<"4", "2">>

\* The provider answered with a non-2xx status, or 2xx with a body that
\* does not decode or lacks the answer path.
ProviderFailed(res) ==
  ~res.threw /\ (~res.ok \/ ~res.decodable \/ ~res.hasAnswer)

IsSuffix(suffix, s) ==
  Len(suffix) <= Len(s) /\ SubSeq(s, Len(s) - Len(suffix) + 1, Len(s)) = suffix

\* C5: when the provider call of a task has failed with a 4xx/5xx response
\* or a malformed body, the background step ends with the error state stored,
\* its message non-empty and, for a 4xx/5xx response, ending in the text the
\* provider sent.
C5_FailureStoredAsError ==
  \A t \in TaskIds :
    (Finished(t) /\ ProviderFailed(task[t].res)) =>
      /\ Len(writes[t]) = 2
      /\ StatusOf(LastWrite(t)) = "error"
      /\ SecondKey(LastWrite(t)) = "message"
      /\ SecondText(LastWrite(t)) # <<>>
      /\ ~task[t].res.ok => IsSuffix(task[t].res.text, SecondText(LastWrite(t)))

\* C6: once the background step of a task has finished, by returning or by
\* an exception, the entry of the task is not pending.
C6_FinishedNeverPending ==
  \A t \in TaskIds : Finished(t) => KvGet(kv, t) # PendingValue

\* C7: once an entry of a task has run out of TTL, every GET /result for the
\* task answers 404.
C7_ExpiredStaysNotFound ==
  \A t \in TaskIds : expired[t] => Poll(t).status = 404

\* C8: for a full TTL window after the terminal put, counted from that put
\* and whatever the age of the pending entry was, GET /result answers the
\* terminal payload.
C8_TerminalReadableForFullTtl ==
  \A t \in TaskIds :
    (task[t].pc = "done" /\ age[t] < PendingTtl) =>
      Poll(t) = Response(200, LastWrite(t))

C8_Witness ==
  \E t \in TaskIds :
    /\ task[t].pc = "done"
    /\ expired[t]
    /\ age[t] > 0
    /\ age[t] < PendingTtl
    /\ Poll(t) = Response(200, LastWrite(t))

\* C9: handling a GET /result, whatever the request, changes no store entry,
\* no remaining TTL and no task.
C9_ResultIsSideEffectFree ==
  [][vars' # vars =>
       \A request \in ResultRequests :
         Result(request) => (kv' = kv /\ task' = task /\ writes' = writes)]_vars

C9_Witness ==
  \E t \in TaskIds :
    /\ seenTerminal[t]
    /\ kv[t].ttl > 0
    /\ kv[t].ttl < TerminalTtl
    /\ StatusOf(kv[t].value) = "completed"

\* C10: after the terminal put of a task, a valid GET /result answered 200
\* carries exactly the text that was put, and the same request repeated
\* right after it gets the same response.
C10_TerminalPollsAgree ==
  [][\A t \in TaskIds :
       (Result(ValidPoll(t)) /\ task[t].pc = "done" /\ Poll(t).status = 200) =>
         /\ Poll(t).body = LastWrite(t)
         /\ handleResult(ValidPoll(t), kv').response = Poll(t)]_vars

C10_Witness ==
  \E t \in TaskIds :
    /\ seenTerminal[t]
    /\ task[t].pc = "done"
    /\ StatusOf(LastWrite(t)) = "error"
    /\ Poll(t) = Response(200, LastWrite(t))

Configured == MissingSetting(env) = "#none"

\* C11: in a configured worker a correctly authenticated GET /result for an
\* identifier /submit has never issued (one it never generated, or one whose
\* handler has not stored anything) is answered 404 "not found" in every
\* reachable state, never with the pending state or any other task's state.
C11_NeverIssuedIsNotFound ==
  Configured =>
    \A t \in TaskIds \cup {UnknownId} :
      (t = UnknownId \/ task[t].pc \in {"none", "putFailed"}) =>
        Poll(t) = Response(404, <<"Task not found or expired">>)

\* An issued task is readable while the identifier never issued is not found.
C11_Witness ==
  /\ Configured
  /\ \E t \in issued : Poll(t).status = 200
  /\ Poll(UnknownId).status = 404

\* C12: a GET /result whose query credential is wrong or missing is answered
\* 401 whatever the store holds: the response is the one an empty store
\* gives, and the handler has read no key.
C12_BadCredentialLearnsNothing ==
  Configured =>
    \A request \in ResultRequests :
      (request.method = "GET" /\ request.apiKey # ApiKey) =>
        LET r == handleResult(request, kv) IN
          /\ r.response.status = 401
          /\ r.response = handleResult(request, [k \in TaskIds |-> NoEntry]).response
          /\ r.reads = <<>>

\* A terminal state is stored, readable with the credential, and the request
\* for the same task without it gets 401.
C12_Witness ==
  /\ Configured
  /\ \E t \in issued :
       /\ Poll(t).status = 200
       /\ IsTerminal(Poll(t).body)
       /\ handleResult([ValidPoll(t) EXCEPT !.apiKey = Null], kv).response.status = 401

BadCredential(request) ==
  request.method = "POST" /\ request.authorization # <<"Bearer ">> \o AuthToken

\* C13: a POST /submit whose submission credential is wrong or missing is
\* answered 401 and creates no task: the handler puts nothing, and no step
\* that changes the store, a task or the identifiers issued is such a request.
C13_BadCredentialCreatesNothing ==
  /\ [](Configured =>
         \A request \in SubmitRequests :
           BadCredential(request) =>
             /\ handleSubmit(request, NextId).response.status = 401
             /\ handleSubmit(request, NextId).puts = <<>>)
  /\ [][vars' # vars =>
          \A request \in SubmitRequests, putOk \in BOOLEAN :
            BadCredential(request) => ~Submit(request, putOk)]_vars

\* An identifier is free and the request would be accepted with the right
\* credential; with the wrong one it gets 401.
C13_Witness ==
  /\ Configured
  /\ FreshIds # {}
  /\ \E request \in SubmitRequests :
       /\ BadCredential(request)
       /\ handleSubmit(request, NextId).response.status = 401
       /\ handleSubmit([request EXCEPT !.authorization = <<"Bearer ">> \o AuthToken],
                       NextId).puts # <<>>

LacksField(request) ==
  /\ request.method = "POST"
  /\ request.authorization = <<"Bearer ">> \o AuthToken
  /\ request.body.json
  /\ ~Truthy(request.body.image) \/ ~Truthy(request.body.mimeType)

\* C14: a correctly authenticated POST /submit whose body lacks the image or
\* lacks the media type is answered 400 and puts nothing, in the worker with
\* the page and in captcha-gemini.js.
C14_MissingFieldRejected ==
  Configured =>
    \A request \in SubmitRequests :
      LacksField(request) =>
        /\ handleSubmit(request, NextId).response.status = 400
        /\ handleSubmit(request, NextId).puts = <<>>
        /\ handleSubmitV1(request, NextId).response.status = 400
        /\ handleSubmitV1(request, NextId).puts = <<>>

\* The JSON text of a state with one member besides status.
StateBody(status, key, text) ==
  JSONStringify(<< <<<<"status">>, <<status>>>>, <<<<key>>, text>> >>)

\* C15: in a configured worker every correctly authenticated GET /result that
\* names a task is answered 404, or 200 with a body that is exactly
\* {status: pending}, {status: completed, solution} or {status: error,
\* message}: solution only with completed, message only with error, never
\* both, never an empty body.
C15_ResultBodyShapes ==
  Configured =>
    \A t \in TaskIds \cup {UnknownId} :
      LET r == Poll(t) IN
        \/ r.status = 404
        \/ /\ r.status = 200
           /\ Len(r.body) > 0
           /\ \/ r.body = PendingValue
              \/ r.body = StateBody("completed", "solution", SecondText(r.body))
              \/ r.body = StateBody("error", "message", SecondText(r.body))

\* A poll has returned the completed state with the answer of the provider.
C15_Witness ==
  /\ Configured
  /\ \E t \in issued :
       /\ seenTerminal[t]
       /\ Poll(t).status = 200
       /\ Poll(t).body = StateBody("completed", "solution", <<"4", "2">>)

\* C16: a key is written at most twice, first the pending put of the submit
\* handler that generated it, then at most one terminal put of its own
\* background step; a step that changes the entry of a key without writing
\* it is the expiry of the store, and nothing else writes or deletes it.
C16_AtMostTwoWrites ==
  /\ [](\A t \in TaskIds :
         /\ Len(writes[t]) <= 2
         /\ Len(writes[t]) >= 1 => writes[t][1] = PendingValue
         /\ Len(writes[t]) = 2 => IsTerminal(writes[t][2]))
  /\ [][\A t \in TaskIds :
          /\ writes'[t] # writes[t] =>
                \/ task[t].pc = "none" /\ task'[t].pc = "awaitPut"
                \/ task[t].pc = "settled" /\ task'[t].pc = "done"
          /\ (kv'[t] # kv[t] /\ writes'[t] = writes[t]) =>
                kv'[t] = KvElapse(kv, TickStep)[t]]_vars

\* A key has had its two writes and its entry has expired since.
C16_Witness ==
  \E t \in issued :
    /\ Len(writes[t]) = 2
    /\ task[t].pc = "done"
    /\ expired[t]
    /\ kv[t] = NoEntry

\* The settings a worker environment lacks.
Absent(e) == {Settings[i] : i \in {j \in 1..Len(Settings) : ~Truthy(e[Settings[j]])}}

\* C17: while a required setting is absent, a request to any path, with any
\* method and credentials, is answered 500 with a text that names an absent
\* setting, and nothing has happened: the store holds nothing, nothing was
\* put, no handler or background step has started, no provider call is open.
C17_MissingSettingFailsEveryRequest ==
  Absent(env) # {} =>
    /\ \A path \in Paths :
         /\ fetch(path, env).status = 500
         /\ Len(fetch(path, env).body) = 3
         /\ fetch(path, env).body[2] \in Absent(env)
    /\ \A t \in TaskIds :
         /\ kv[t] = NoEntry
         /\ writes[t] = <<>>
         /\ task[t].pc = "none"
    /\ issued = {}

\* Two settings are absent; the request for a result is answered 500 naming
\* the first of them.
C17_Witness ==
  /\ Absent(env) = {"apiKey", "kv"}
  /\ fetch("/result", env) =
       Response(500, <<"Required setting \"", "apiKey",
                       "\" is not configured in Worker environment.">>)

\* C18: when the store rejects the pending put of a /submit, the submit
\* fails as a whole: its identifier is never returned, the put is not tried
\* again (the key is never written), and no background inference starts for
\* it (its handler never goes on, no provider call is ever open for it).
C18_FailedPutFailsSubmit ==
  \A t \in failedPuts :
    /\ t \notin issued
    /\ writes[t] = <<>>
    /\ kv[t] = NoEntry
    /\ task[t].pc = "putFailed"
    /\ task[t].payload = NoPayload

\* The put of an accepted submission has been rejected: its identifier is
\* not found, and no identifier is left.
C18_Witness ==
  /\ Configured
  /\ \E t \in failedPuts : task[t].pc = "putFailed" /\ Poll(t).status = 404
  /\ FreshIds = {}

\* A provider response with a non-success status, or whose body is not
\* decodable, has no answer field, or has an answer with no text in it.
Unexpected(res) ==
  /\ ~res.threw
  /\ \/ ~res.ok
     \/ ~res.decodable
     \/ ~res.hasAnswer
     \/ \A i \in 1..Len(res.text) : res.text[i] = " "

\* C19: for every provider response with a non-success status or a
\* structurally unexpected body, callGemini returns {error: message} with a
\* message, not a solution and not an exception.
C19_UnexpectedResponseIsError ==
  \A t \in TaskIds :
    (task[t].pc = "settled" /\ Unexpected(task[t].res)) =>
      /\ ~callGemini(task[t].res).threw
      /\ Truthy(callGemini(task[t].res).error)
      /\ callGemini(task[t].res).solution = Undefined

\* C20: while the provider call of an accepted submission is open, the media
\* type of the payload sent equals the media type the body of the submission
\* declared, in the worker with the page and in captcha-gemini.js.
C20_MediaTypeSentIsDeclared ==
  \A t \in TaskIds :
    (task[t].pc = "fetching" /\ Truthy(task[t].body.mimeType)) =>
      /\ task[t].payload.mime_type = task[t].body.mimeType
      /\ task[t].payload.data = task[t].body.image
      /\ GeminiPayloadV1(task[t].body.image).mime_type = task[t].body.mimeType

Started(t) == task[t].pc \in {"fetching", "settled", "done", "rejected"}

\* C21: the response of /submit that carries the identifier is sent when the
\* handler resumes after its put, whatever the provider does afterwards: it
\* has been sent while the provider call is open, when the call has failed
\* and when the background step has ended by an exception, and a handler
\* that waits for its put always gets to send it, with no assumption that
\* the provider ever answers.
C21_SubmitResponseIndependentOfInference ==
  /\ [](\A t \in TaskIds :
         Started(t) => (t \in issued /\ handleSubmitResponse(t).status = 200))
  /\ \A t \in TaskIds : (task[t].pc = "awaitPut") ~> (t \in issued)

\* The identifier has been returned, and the provider call is still open
\* after the pending entry has expired.
C21_Witness ==
  \E t \in issued : task[t].pc = "fetching" /\ expired[t] /\ writes[t] = <<PendingValue>>

\* C22: an accepted task has exactly one provider call: the call is started
\* once, when /submit starts the background step, no task has a second one,
\* and once the call has settled the task never goes back to an open call:
\* a failure is final, and what is stored after it, if anything, is that
\* failure.
C22_OneProviderCallPerTask ==
  /\ [](\A t \in TaskIds :
         /\ calls[t] = (IF Started(t) THEN 1 ELSE 0)
         /\ (Finished(t) /\ Len(writes[t]) = 2 /\ ProviderFailed(task[t].res)) =>
               StatusOf(writes[t][2]) = "error")
  /\ [][\A t \in TaskIds :
          /\ calls'[t] # calls[t] =>
                (task[t].pc = "awaitPut" /\ task'[t].pc = "fetching")
          /\ task[t].pc \in {"settled", "done", "rejected"} =>
                (task'[t].pc # "fetching" /\ task'[t].res = task[t].res)]_vars

\* The one provider call of a task has failed and its step has ended.
C22_Witness ==
  \E t \in issued :
    /\ calls[t] = 1
    /\ task[t].pc = "done"
    /\ ProviderFailed(task[t].res)
    /\ StatusOf(LastWrite(t)) = "error"

\* C23: under every interleaving of the handlers and background steps of
\* concurrent submissions, a step of one task leaves the entry, the write
\* log and the position of every other task as they are, an entry changes
\* otherwise only by the expiry of the store, and the terminal payload under
\* an identifier is the outcome of that task's own provider call.
C23_TasksAreIndependent ==
  /\ [](\A t \in TaskIds :
         /\ Len(writes[t]) = 2 =>
               writes[t][2] = JSONStringify(FinalResult(callGemini(task[t].res)))
         /\ KvGet(kv, t) # Null => KvGet(kv, t) = LastWrite(t))
  /\ [][\A t \in TaskIds :
          /\ task'[t] # task[t] =>
                \A u \in TaskIds \ {t} :
                  kv'[u] = kv[u] /\ writes'[u] = writes[u] /\ task'[u] = task[u]
          /\ (kv'[t] # kv[t] /\ task'[t] = task[t]) =>
                kv' = KvElapse(kv, TickStep)]_vars

\* Two tasks have ended, one with the provider's failure and one with its
\* answer, and each is read back with its own outcome.
C23_Witness ==
  \E t, u \in issued :
    /\ t # u
    /\ task[t].pc = "done" /\ task[u].pc = "done"
    /\ Poll(t).body = StateBody("error", "message", <<"Gemini API error: ", "quota">>)
    /\ Poll(u).body = StateBody("completed", "solution", <<"4", "2">>)

Rejected(status) == status \in {405, 401, 400}

\* The order of the checks of a submit handler, and that a request it
\* rejects puts nothing.
SubmitOrder(r, request) ==
  /\ request.method # "POST" => r.response.status = 405
  /\ BadCredential(request) => r.response.status = 401
  /\ Rejected(r.response.status) => r.puts = <<>>

\* The order of the checks of a result handler, and that a request it
\* rejects reads nothing and leaves the store as it is.
ResultOrder(r, request) ==
  /\ request.method # "GET" => r.response.status = 405
  /\ (request.method = "GET" /\ request.apiKey # ApiKey) => r.response.status = 401
  /\ (request.method = "GET" /\ request.apiKey = ApiKey /\ request.taskId = NoTaskId) =>
        r.response.status = 400
  /\ Rejected(r.response.status) => (r.reads = <<>> /\ r.kv = kv)

\* C24: in both workers the handlers check the method, then the credential,
\* then the body or parameter, then go to the store: a wrong method is 405
\* whatever the credential, a wrong credential is 401 whatever the body or
\* taskId, and a request answered 405, 401 or 400 puts and reads nothing, and
\* no step that changes the state is such a submission.
C24_CheckOrder ==
  /\ [](Configured =>
         /\ \A request \in SubmitRequests :
              /\ SubmitOrder(handleSubmit(request, NextId), request)
              /\ SubmitOrder(handleSubmitV1(request, NextId), request)
         /\ \A request \in ResultRequests :
              /\ ResultOrder(handleResult(request, kv), request)
              /\ ResultOrder(handleResultV1(request, kv), request))
  /\ [][vars' # vars =>
          \A request \in SubmitRequests, putOk \in BOOLEAN :
            Rejected(handleSubmit(request, NextId).response.status) =>
              ~Submit(request, putOk)]_vars

\* A state is stored; a POST for it with a wrong key is 405, a GET without
\* taskId and with a wrong key is 401, and a POST /submit with a wrong
\* credential and a body that is not JSON is 401.
C24_Witness ==
  /\ Configured
  /\ \E t \in issued :
       /\ Poll(t).status = 200
       /\ handleResult([method |-> "POST", apiKey |-> <<"wrong">>, taskId |-> t], kv).response.status = 405
  /\ handleResult([method |-> "GET", apiKey |-> <<"wrong">>, taskId |-> NoTaskId], kv).response.status = 401
  /\ \E request \in SubmitRequests :
       /\ BadCredential(request)
       /\ ~request.body.json
       /\ handleSubmit(request, NextId).response.status = 401

\* A submission whose body is JSON with an image and mimeType "image/png".
PngBody(request) ==
  /\ request.body.json
  /\ Truthy(request.body.image)
  /\ request.body.mimeType = <<"image/png">>

\* C25: for submissions whose body carries an image and mimeType
\* "image/png", the worker of captcha-gemini.js and the worker with the page
\* agree in every reachable state: /submit gives the same status and the same
\* put (key, value, TTL), /result gives the same status and body, the
\* background step makes the same put or ends by the same exception for every
\* provider response, and the open provider call carries the same media type.
C25_VariantsAgreeOnPng ==
  Configured =>
    /\ \A request \in SubmitRequests :
         PngBody(request) =>
           /\ handleSubmitV1(request, NextId).response.status =
                handleSubmit(request, NextId).response.status
           /\ handleSubmitV1(request, NextId).puts = handleSubmit(request, NextId).puts
    /\ \A request \in ResultRequests :
         /\ handleResultV1(request, kv).response.status =
              handleResult(request, kv).response.status
         /\ handleResult(request, kv).response.status = 200 =>
              handleResultV1(request, kv).response = handleResult(request, kv).response
    /\ \A t \in TaskIds, res \in ProviderResponses :
         solveAndStoreV1(t, res) = solveAndStore(t, res)
    /\ \A t \in TaskIds :
         (task[t].pc = "fetching" /\ task[t].body.mimeType = <<"image/png">>) =>
           GeminiPayloadV1(task[t].body.image) = task[t].payload

\* The provider call of a submission that declared image/png is open, with
\* the payload both workers send.
C25_Witness ==
  /\ Configured
  /\ \E t \in issued :
       /\ task[t].pc = "fetching"
       /\ task[t].body.mimeType = <<"image/png">>
       /\ task[t].payload = GeminiPayloadV1(task[t].body.image)
       /\ handleResultV1(ValidPoll(t), kv).response = Response(200, PendingValue)

TerminalDisplays == {"solution", "failed", "fetchFailed", "exception", "timeout"}

\* C26: once the page shows a terminal outcome (the solution, an error
\* message or the timeout notice) and has cleared its timer, no step changes
\* what it shows: the answer to a poll still in flight does not replace it.
C26_TerminalDisplayIsFinal ==
  [][(~page.timer /\ page.output.kind \in TerminalDisplays) =>
       page'.output = page.output]_vars
====
